---- MODULE Spec2Model ----
(***************************************************************************)
(* Model of the IkInfo commission tree of election-analysis               *)
(* (src/ik_info.py, driven by src/process_spb.py).                        *)
(*                                                                         *)
(* The heap is the sequence of IkInfo objects created so far; an object   *)
(* is referred to by its index.  dependent_iks is an OrderedDict (or      *)
(* None): it is modelled by the flag is_none and the parallel sequences   *)
(* keys / vals in insertion order.  Names are small integers standing    *)
(* for the strings.  Every operation of the class is one action; the     *)
(* outcome of the last operation (return value or exception) is kept in   *)
(* result.  The turnout plot of process_spb.py is modelled up to its     *)
(* drawing: the bucket index of every unit it visits.                     *)
(*                                                                         *)
(* Input domain: add_ik_info is only offered children that are roots and  *)
(* do not contain the parent, as in process_spb.py where every attached   *)
(* node is freshly built; object graphs stay forests.                     *)
(***************************************************************************)
EXTENDS Integers, Sequences, FiniteSets, TLC

\* ---------------------------------------------------------------- bounds
\* objects created in the specifications without counters
MaxNodes == 4
\* objects created in the specifications that ingest counters
MaxUnits == 3
\* distinct names
MaxNames == 2
\* sum of the values the ingestion assigns
MaxIngest == 2
\* sum of the voters and given ballots ingested for the turnout plot
MaxVoters == 4

Names == 1..MaxNames

\* ---------------------------------------------------------------- state
VARIABLES heap, result, ingested

vars == <<heap, result, ingested>>

\* field_description.keys(), in definition order
Fields ==
    <<"total_voters", "given_ballots", "found_ballots",
      "spoiled_ballots", "yes_votes", "no_votes">>

Ids(h) == 1..Len(h)

\* dependent_iks = None (class attribute)
NoneDict == [is_none |-> TRUE, keys |-> <<>>, vals |-> <<>>]

\* OrderedDict()
EmptyDict == [is_none |-> FALSE, keys |-> <<>>, vals |-> <<>>]

\* Python truthiness of dependent_iks: None and the empty dict are falsy
Falsy(d) == d.is_none \/ d.keys = <<>>

\* key in d
HasKey(d, k) == \E i \in 1..Len(d.keys) : d.keys[i] = k

\* d[k] for a present key
Lookup(d, k) == d.vals[CHOOSE i \in 1..Len(d.keys) : d.keys[i] = k]

\* d[k] = v : a present key keeps its position, a new key goes last
DictSet(d, k, v) ==
    IF HasKey(d, k)
    THEN [d EXCEPT !.vals[CHOOSE i \in 1..Len(d.keys) : d.keys[i] = k] = v]
    ELSE [d EXCEPT !.keys = Append(@, k), !.vals = Append(@, v)]

\* IkInfo(name, has_dependent)
NewIk(name, has_dependent) ==
    [name |-> name,
     dependent_iks |-> IF has_dependent THEN EmptyDict ELSE NoneDict,
     total_voters |-> 0, given_ballots |-> 0, found_ballots |-> 0,
     spoiled_ballots |-> 0, yes_votes |-> 0, no_votes |-> 0]

\* ------------------------------------------------------- tree structure
\* the objects held in n's dependent_iks, in insertion order
Values(h, n) == h[n].dependent_iks.vals

RECURSIVE SubtreeOfSeq(_, _)
RECURSIVE Subtree(_, _)
\* n and all objects reachable from it through dependent_iks
Subtree(h, n) == {n} \cup SubtreeOfSeq(h, Values(h, n))
SubtreeOfSeq(h, s) ==
    IF s = <<>> THEN {} ELSE Subtree(h, Head(s)) \cup SubtreeOfSeq(h, Tail(s))

IsValue(h, p, c) == \E i \in 1..Len(Values(h, p)) : Values(h, p)[i] = c

\* c is held by no dependent_iks
IsRoot(h, c) == \A p \in Ids(h) : ~IsValue(h, p, c)

\* ---------------------------------------------------------------- results
NoResult == [op |-> "none", node |-> 0, arg |-> 0, out |-> [kind |-> "none"]]

Returned == [kind |-> "return"]

\* ----------------------------------------------------- derived metrics
\* 100.0 * num / den : float division raises ZeroDivisionError on den = 0,
\* otherwise the quotient, kept as the exact fraction 100*num / den
\* variant: a zero denominator yields an infinite quotient, as numpy does
PercentInf(num, den) ==
    IF den = 0
    THEN [kind |-> "float", num |-> 100 * num, den |-> 0]
    ELSE [kind |-> "float", num |-> 100 * num, den |-> den]

Percent(num, den) ==
    IF den = 0
    THEN [kind |-> "ZeroDivisionError"]
    ELSE [kind |-> "float", num |-> 100 * num, den |-> den]

get_turnout_percent(ik) == Percent(ik.given_ballots, ik.total_voters)

get_yes_percent(ik) == Percent(ik.yes_votes, ik.found_ballots)

get_no_percent(ik) == Percent(ik.no_votes, ik.found_ballots)

get_spoiled_percent(ik) == Percent(ik.spoiled_ballots, ik.found_ballots)

Metrics == {"turnout", "yes", "no", "spoiled"}

get_percent(ik, metric) ==
    CASE metric = "turnout" -> get_turnout_percent(ik)
      [] metric = "yes" -> get_yes_percent(ik)
      [] metric = "no" -> get_no_percent(ik)
      [] metric = "spoiled" -> get_spoiled_percent(ik)

\* ------------------------------------------------------------ traversal
RECURSIVE get_iks(_, _, _)
RECURSIVE get_iks_values(_, _)
\* variant: never descends below the direct children
get_iks_shallow(h, n, recursive) ==
    IF Falsy(h[n].dependent_iks) THEN <<n>> ELSE Values(h, n)

\* variant: always descends, whatever recursive is
get_iks_deep(h, n, recursive) ==
    IF Falsy(h[n].dependent_iks) THEN <<n>> ELSE get_iks_values(h, Values(h, n))

\* list(self.get_iks(recursive)): the objects yielded, in order
get_iks(h, n, recursive) ==
    IF Falsy(h[n].dependent_iks)
    THEN <<n>>
    ELSE IF recursive
         THEN get_iks_values(h, Values(h, n))
         ELSE Values(h, n)
\* for ik in values: yield from ik.get_iks()   (recursive defaults to True)
get_iks_values(h, s) ==
    IF s = <<>> THEN <<>>
    ELSE get_iks(h, Head(s), TRUE) \o get_iks_values(h, Tail(s))

\* --------------------------------------------------------------- lookup
\* self.get_ik_by_name(ik_name).  `in` on None raises TypeError; the loop
\* runs over the keys of the dict, which are strings, so its first
\* iteration raises AttributeError.
get_ik_by_name(h, n, ik_name) ==
    LET d == h[n].dependent_iks IN
    IF h[n].name = ik_name THEN [kind |-> "return", ik |-> n]
    ELSE IF d.is_none THEN [kind |-> "TypeError"]
    ELSE IF HasKey(d, ik_name) THEN [kind |-> "return", ik |-> Lookup(d, ik_name)]
    ELSE IF d.keys # <<>> THEN [kind |-> "AttributeError"]
    ELSE [kind |-> "return", ik |-> 0]

\* ----------------------------------------------------------- attachment
\* variant: the attachment forgets to add the child's given_ballots
add_ik_info_drops_given(h, p, c) ==
    LET d0 == IF Falsy(h[p].dependent_iks) THEN EmptyDict ELSE h[p].dependent_iks
    IN [h EXCEPT ![p] =
           [@ EXCEPT !.dependent_iks = DictSet(d0, h[c].name, c),
                     !.total_voters = @ + h[c].total_voters,
                     !.found_ballots = @ + h[c].found_ballots,
                     !.spoiled_ballots = @ + h[c].spoiled_ballots,
                     !.yes_votes = @ + h[c].yes_votes,
                     !.no_votes = @ + h[c].no_votes]]

\* self.add_ik_info(ik_info): the heap after the call
add_ik_info(h, p, c) ==
    LET d0 == IF Falsy(h[p].dependent_iks) THEN EmptyDict ELSE h[p].dependent_iks
    IN [h EXCEPT ![p] =
           [@ EXCEPT !.dependent_iks = DictSet(d0, h[c].name, c),
                     !.total_voters = @ + h[c].total_voters,
                     !.given_ballots = @ + h[c].given_ballots,
                     !.found_ballots = @ + h[c].found_ballots,
                     !.spoiled_ballots = @ + h[c].spoiled_ballots,
                     !.yes_votes = @ + h[c].yes_votes,
                     !.no_votes = @ + h[c].no_votes]]

\* ----------------------------------------------------------- validation
AssertionError(h, n, check, field) ==
    [kind |-> "AssertionError", ik |-> n, ik_name |-> h[n].name,
     check |-> check, field |-> field]

validate_found_ballots(h, n) ==
    IF h[n].found_ballots # h[n].yes_votes + h[n].no_votes + h[n].spoiled_ballots
    THEN AssertionError(h, n, "found_ballots", "found_ballots")
    ELSE Returned

validate_given_ballots(h, n) ==
    IF h[n].given_ballots < h[n].found_ballots
    THEN AssertionError(h, n, "given_ballots", "given_ballots")
    ELSE Returned

\* variant: total_voters >= given_ballots is not checked
validate_total_voters_skipped(h, n) == Returned

validate_total_voters(h, n) ==
    IF h[n].total_voters < h[n].given_ballots
    THEN AssertionError(h, n, "total_voters", "total_voters")
    ELSE Returned

\* reduce(lambda acc, ik: acc + getattr(ik, field), values, 0)
RECURSIVE total_calc(_, _, _)
total_calc(h, s, field) ==
    IF s = <<>> THEN 0 ELSE h[Head(s)][field] + total_calc(h, Tail(s), field)

\* for field in field_description.keys(): the first field whose total
\* differs from the sum over the values raises
RECURSIVE validate_fields(_, _, _)
validate_fields(h, n, i) ==
    IF i > Len(Fields) THEN Returned
    ELSE IF h[n][Fields[i]] # total_calc(h, Values(h, n), Fields[i])
         THEN AssertionError(h, n, "dependent_iks_numbers", Fields[i])
         ELSE validate_fields(h, n, i + 1)

RECURSIVE validate(_, _)
RECURSIVE validate_values(_, _)
\* variant: the child loop stops after the first child
validate_values_first_only(h, s) ==
    IF s = <<>> THEN Returned ELSE validate(h, Head(s))

\* variant: the children are validated before the own checks
validate_children_first(h, n) ==
    LET r0 == IF Falsy(h[n].dependent_iks) THEN Returned
              ELSE validate_values(h, Values(h, n))
        r1 == validate_found_ballots(h, n)
        r2 == validate_given_ballots(h, n)
        r3 == validate_total_voters(h, n)
    IN IF r0.kind # "return" THEN r0
       ELSE IF r1.kind # "return" THEN r1
       ELSE IF r2.kind # "return" THEN r2
       ELSE IF r3.kind # "return" THEN r3
       ELSE IF Falsy(h[n].dependent_iks) THEN Returned
       ELSE validate_fields(h, n, 1)

validate_dependent_iks_numbers(h, n) ==
    IF Falsy(h[n].dependent_iks) THEN Returned
    ELSE LET r == validate_values(h, Values(h, n)) IN
         IF r.kind # "return" THEN r ELSE validate_fields(h, n, 1)

\* self.validate(): Returned, or the first AssertionError raised
validate(h, n) ==
    LET r1 == validate_found_ballots(h, n)
        r2 == validate_given_ballots(h, n)
        r3 == validate_total_voters(h, n)
    IN IF r1.kind # "return" THEN r1
       ELSE IF r2.kind # "return" THEN r2
       ELSE IF r3.kind # "return" THEN r3
       ELSE validate_dependent_iks_numbers(h, n)
\* for ik in values: ik.validate()
validate_values(h, s) ==
    IF s = <<>> THEN Returned
    ELSE LET r == validate(h, Head(s)) IN
         IF r.kind # "return" THEN r ELSE validate_values(h, Tail(s))

\* every counter of n is at most max
CountersWithin(h, n, max) ==
    \A i \in 1..Len(Fields) : h[n][Fields[i]] <= max

\* ------------------------------------------------------------- plotting
\* plot_distribution: k buckets per percent of turnout
k == 3

\* the length of the arrays yes_voters, no_voters and voters
ticks == k * 100 + 1

\* int(k * uik_info.get_turnout_percent()).  The float 100.0 * given /
\* total, times k, truncates to the floor of the exact quotient: a quotient
\* that is an integer n is computed as 3 * fl(n / 3) = n, and any other is
\* further than the rounding error from the next integer.
turnout_ind(ik) ==
    LET turnout_rounded == get_turnout_percent(ik) IN
    IF turnout_rounded.kind # "float" THEN turnout_rounded
    ELSE [kind |-> "int", value |-> (k * turnout_rounded.num) \div turnout_rounded.den]

\* the loop of plot_distribution over the units s: the bucket indices in
\* the order the units are visited, or the error that ends the loop; an
\* index outside the arrays raises IndexError
RECURSIVE plot_distribution_loop(_, _, _)
plot_distribution_loop(h, s, inds) ==
    IF s = <<>> THEN [kind |-> "return", inds |-> inds]
    ELSE LET turnout_index == turnout_ind(h[Head(s)]) IN
         IF turnout_index.kind # "int" THEN turnout_index
         ELSE IF turnout_index.value >= ticks
         THEN [kind |-> "IndexError", ik |-> Head(s), ind |-> turnout_index.value]
         ELSE plot_distribution_loop(h, Tail(s), Append(inds, turnout_index.value))

\* plot_distribution(ik_info, ...) up to the drawing
plot_distribution(h, n) == plot_distribution_loop(h, get_iks(h, n, TRUE), <<>>)

\* -------------------------------------------------------------- actions
Init ==
    /\ heap = <<>>
    /\ result = NoResult
    /\ ingested = 0

\* ik = IkInfo(name, has_dependent)
Create(name, has_dependent) ==
    /\ Len(heap) < MaxNodes
    /\ heap' = Append(heap, NewIk(name, has_dependent))
    /\ result' = [op |-> "create", node |-> 0, arg |-> 0,
                  out |-> Returned]
    /\ UNCHANGED ingested

\* setattr(ik, field, value) by the ingestion loop.  Every field code
\* occurs in one row of the data, so a field is assigned once, while it
\* still holds the class default 0; assigning 0 leaves the heap as it is
\* and is not enumerated.  ingested is the sum of the values assigned so
\* far and is capped by MaxIngest.
SetAttr(n, field, value) ==
    /\ value > 0
    /\ ingested + value <= MaxIngest
    /\ heap[n][field] = 0
    /\ heap' = [heap EXCEPT ![n][field] = value]
    /\ ingested' = ingested + value
    /\ result' = [op |-> "setattr", node |-> 0, arg |-> 0, out |-> Returned]

\* parent.add_ik_info(child).  No counter exceeds the ingested total
\* unless replaced children are counted again, which MaxIngest caps.
AddIkInfo(p, c) ==
    /\ p # c
    /\ IsRoot(heap, c)
    /\ p \notin Subtree(heap, c)
    /\ CountersWithin(add_ik_info(heap, p, c), p, MaxIngest)
    /\ heap' = add_ik_info(heap, p, c)
    /\ result' = [op |-> "add_ik_info", node |-> p, arg |-> c, out |-> Returned]
    /\ UNCHANGED ingested

\* variant: validation overwrites total_voters with the sum it computed
ValidateRepairs(n) ==
    /\ result' = [op |-> "validate", node |-> n, arg |-> 0,
                  out |-> validate(heap, n)]
    /\ heap' = IF Falsy(heap[n].dependent_iks) THEN heap
               ELSE [heap EXCEPT ![n].total_voters =
                        total_calc(heap, Values(heap, n), "total_voters")]
    /\ UNCHANGED ingested

\* ik.validate()
Validate(n) ==
    /\ result' = [op |-> "validate", node |-> n, arg |-> 0,
                  out |-> validate(heap, n)]
    /\ UNCHANGED <<heap, ingested>>

\* list(ik.get_iks(recursive))
GetIks(n, recursive) ==
    /\ result' = [op |-> "get_iks", node |-> n, arg |-> recursive,
                  out |-> [kind |-> "return", iks |-> get_iks(heap, n, recursive)]]
    /\ UNCHANGED <<heap, ingested>>

\* ik.get_ik_by_name(ik_name)
GetIkByName(n, ik_name) ==
    /\ result' = [op |-> "get_ik_by_name", node |-> n, arg |-> ik_name,
                  out |-> get_ik_by_name(heap, n, ik_name)]
    /\ UNCHANGED <<heap, ingested>>

\* ik.get_turnout_percent(), get_yes_percent(), get_no_percent(),
\* get_spoiled_percent()
GetPercent(n, metric) ==
    /\ result' = [op |-> "get_percent", node |-> n, arg |-> metric,
                  out |-> get_percent(heap[n], metric)]
    /\ UNCHANGED <<heap, ingested>>

\* the rows '1' and '2' of the data of a unit: setattr of total_voters and
\* of given_ballots, while the unit stands alone and holds the defaults.
\* ingested is capped by MaxVoters here.
SetTurnout(n, total, given) ==
    /\ total + given > 0
    /\ ingested + total + given <= MaxVoters
    /\ IsRoot(heap, n)
    /\ Falsy(heap[n].dependent_iks)
    /\ heap[n].total_voters = 0
    /\ heap[n].given_ballots = 0
    /\ heap' = [heap EXCEPT ![n].total_voters = total, ![n].given_ballots = given]
    /\ ingested' = ingested + total + given
    /\ result' = [op |-> "setattr", node |-> 0, arg |-> 0, out |-> Returned]

\* plot_distribution(ik, "Turnout")
PlotDistribution(n) ==
    /\ result' = [op |-> "plot_distribution", node |-> n, arg |-> 0,
                  out |-> plot_distribution(heap, n)]
    /\ UNCHANGED <<heap, ingested>>

\* ------------------------------------------------------- specifications
\* Traversal of trees of every shape; names are unique, counters stay 0.
NextTree ==
    \/ \E has_dependent \in BOOLEAN : Create(Len(heap) + 1, has_dependent)
    \/ \E p \in Ids(heap), c \in Ids(heap) : AddIkInfo(p, c)
    \/ \E n \in Ids(heap), recursive \in BOOLEAN : GetIks(n, recursive)

SpecTree == Init /\ [][NextTree]_vars

\* Lookup by name in trees whose nodes may share names.
NextLookup ==
    \/ \E name \in Names, has_dependent \in BOOLEAN : Create(name, has_dependent)
    \/ \E p \in Ids(heap), c \in Ids(heap) : AddIkInfo(p, c)
    \/ \E n \in Ids(heap), ik_name \in Names : GetIkByName(n, ik_name)

SpecLookup == Init /\ [][NextLookup]_vars

\* Ingestion of free-standing units and their attachment, names drawn
\* freely: a unit is populated before it is attached, and a parent gets
\* its counters from its children only.
NextAttach ==
    \/ \E name \in Names, has_dependent \in BOOLEAN :
          Len(heap) < MaxUnits /\ Create(name, has_dependent)
    \/ \E n \in Ids(heap), i \in 1..Len(Fields), value \in 1..MaxIngest :
          /\ IsRoot(heap, n)
          /\ Falsy(heap[n].dependent_iks)
          /\ SetAttr(n, Fields[i], value)
    \/ \E p \in Ids(heap), c \in Ids(heap) : AddIkInfo(p, c)

SpecAttach == Init /\ [][NextAttach]_vars

\* Ingestion, attachment and validation; names are unique and, as in
\* process_spb.py, a parent is created before the children it is given.
NextCount ==
    \/ Len(heap) < MaxUnits /\ Create(Len(heap) + 1, FALSE)
    \/ \E n \in Ids(heap), i \in 1..Len(Fields), value \in 1..MaxIngest :
          SetAttr(n, Fields[i], value)
    \/ \E p \in Ids(heap), c \in Ids(heap) : p < c /\ AddIkInfo(p, c)
    \/ \E n \in Ids(heap) : Validate(n)

SpecCount == Init /\ [][NextCount]_vars

\* Ingestion and the derived metrics of single units.
NextMetrics ==
    \/ Len(heap) < MaxUnits /\ Create(Len(heap) + 1, FALSE)
    \/ \E n \in Ids(heap), i \in 1..Len(Fields), value \in 1..MaxIngest :
          SetAttr(n, Fields[i], value)
    \/ \E n \in Ids(heap), metric \in Metrics : GetPercent(n, metric)

SpecMetrics == Init /\ [][NextMetrics]_vars

\* Ingestion of the turnout rows, attachment and the turnout plot.
NextPlot ==
    \/ Len(heap) < MaxUnits /\ Create(Len(heap) + 1, FALSE)
    \/ \E n \in Ids(heap), total \in 0..MaxVoters, given \in 0..MaxVoters :
          SetTurnout(n, total, given)
    \/ \E p \in Ids(heap), c \in Ids(heap) : p < c /\ AddIkInfo(p, c)
    \/ \E n \in Ids(heap) : PlotDistribution(n)

SpecPlot == Init /\ [][NextPlot]_vars

\* ================================================================ claims
\* ------------------------------------------- vocabulary of the claims
Inv1(h, n) ==
    h[n].found_ballots = h[n].yes_votes + h[n].no_votes + h[n].spoiled_ballots

Inv2(h, n) == h[n].given_ballots >= h[n].found_ballots

Inv3(h, n) == h[n].total_voters >= h[n].given_ballots

OwnInvariants(h, n) == Inv1(h, n) /\ Inv2(h, n) /\ Inv3(h, n)

HasChildren(h, n) == Len(h[n].dependent_iks.vals) > 0

\* the sum of field over the first count children of n
RECURSIVE ChildSum(_, _, _, _)
ChildSum(h, n, field, count) ==
    IF count = 0 THEN 0
    ELSE h[h[n].dependent_iks.vals[count]][field] + ChildSum(h, n, field, count - 1)

\* each of the six counters of n is the sum over its direct children
Inv4(h, n) ==
    \A f \in {"total_voters", "given_ballots", "found_ballots",
              "spoiled_ballots", "yes_votes", "no_votes"} :
        h[n][f] = ChildSum(h, n, f, Len(h[n].dependent_iks.vals))

Descendants(h, n) == Subtree(h, n) \ {n}

\* n has a grandchild
Deep(h, n) == \E c \in Descendants(h, n) : Descendants(h, c) # {}

\* the nodes of the subtree of n, depth first, children in insertion order
RECURSIVE Preorder(_, _)
RECURSIVE PreorderAll(_, _, _)
Preorder(h, n) == <<n>> \o PreorderAll(h, h[n].dependent_iks.vals, 1)
PreorderAll(h, s, i) ==
    IF i > Len(s) THEN <<>> ELSE Preorder(h, s[i]) \o PreorderAll(h, s, i + 1)

IsLeaf(h, n) == ~HasChildren(h, n)

\* the leaves of the subtree of n, left to right
Leaves(h, n) == SelectSeq(Preorder(h, n), LAMBDA m : IsLeaf(h, m))

\* ---------------------------------------------------------------- C1
\* C1: whenever validate() on a node returns without raising, every node
\* of its subtree satisfies found = yes + no + spoiled, given >= found and
\* total >= given, and every node of the subtree that has children has each
\* of its six counters equal to the sum over its direct children.
C1_ValidateSound ==
    (result.op = "validate" /\ result.out.kind = "return") =>
        \A m \in Subtree(heap, result.node) :
            /\ OwnInvariants(heap, m)
            /\ HasChildren(heap, m) => Inv4(heap, m)

\* validate() returned on a node with a grandchild and counted voters
C1_Witness ==
    /\ result.op = "validate"
    /\ result.out.kind = "return"
    /\ Deep(heap, result.node)
    /\ heap[result.node].total_voters > 0

\* ---------------------------------------------------------------- C2
\* C2: a parent that starts with zero counters and is built purely by
\* add_ik_info has, after every such call, each of its six counters equal
\* to the sum over the nodes held in its child mapping.  As an induction
\* over the calls: the sums match on the fresh parent, and every call that
\* finds them matching leaves them matching.
C2_AttachKeepsSums ==
    [][(/\ result'.op = "add_ik_info"
        /\ Inv4(heap, result'.node))
       => Inv4(heap', result'.node)]_vars

\* ---------------------------------------------------------------- C3
\* C3: add_ik_info with a child whose name is already a key of the
\* parent's child mapping fails with an error, replaces nothing and
\* changes none of the parent's counters.
C3_DuplicateRejected ==
    [][(/\ result'.op = "add_ik_info"
        /\ HasKey(heap[result'.node].dependent_iks, heap[result'.arg].name))
       => (result'.out.kind # "return" /\ heap' = heap)]_vars

\* ---------------------------------------------------------------- C4
\* C4 as stated: when validate() runs on a node that violates one of its
\* own invariants and has a descendant that violates one too, the error
\* raised names the descendant, not the node.
C4_ChildrenFirst ==
    (/\ result.op = "validate"
     /\ ~OwnInvariants(heap, result.node)
     /\ \E d \in Descendants(heap, result.node) : ~OwnInvariants(heap, d))
    => (result.out.kind = "AssertionError" /\ result.out.ik # result.node)

\* C4 as amended: validate() checks the node's own three invariants before
\* it validates any child, and validates every child before the sum check:
\* a node that violates an own invariant is the one named, whatever its
\* descendants do, and a descendant is named when the node's own
\* invariants hold and some descendant violates one of its own.
C4_SelfFirst ==
    result.op = "validate" =>
        /\ ~OwnInvariants(heap, result.node) =>
              /\ result.out.kind = "AssertionError"
              /\ result.out.ik = result.node
              /\ result.out.ik_name = heap[result.node].name
              /\ result.out.check # "dependent_iks_numbers"
        /\ (/\ OwnInvariants(heap, result.node)
            /\ \E d \in Descendants(heap, result.node) : ~OwnInvariants(heap, d))
           => /\ result.out.kind = "AssertionError"
              /\ result.out.ik \in Descendants(heap, result.node)

\* validate() ran on a node that violates an own invariant above a
\* descendant that violates one too, and named the node
C4_Witness ==
    /\ result.op = "validate"
    /\ ~OwnInvariants(heap, result.node)
    /\ \E d \in Descendants(heap, result.node) : ~OwnInvariants(heap, d)
    /\ result.out.kind = "AssertionError"
    /\ result.out.ik = result.node

\* ---------------------------------------------------------------- C5
\* C5: get_iks(recursive=True) yields exactly the leaves of the tree, each
\* once, left to right; the number yielded is the number of leaves and no
\* node with children is yielded.
C5_RecursiveYieldsLeaves ==
    (result.op = "get_iks" /\ result.arg = TRUE) =>
        LET iks == result.out.iks
            leaves == {m \in Subtree(heap, result.node) : IsLeaf(heap, m)}
        IN /\ iks = Leaves(heap, result.node)
           /\ {iks[i] : i \in 1..Len(iks)} = leaves
           /\ Len(iks) = Cardinality(leaves)

\* get_iks(True) ran on a node with a grandchild and several leaves
C5_Witness ==
    /\ result.op = "get_iks"
    /\ result.arg = TRUE
    /\ Deep(heap, result.node)
    /\ Len(result.out.iks) >= 2

\* ---------------------------------------------------------------- C6
\* C6: get_iks(recursive=False) on a node with children yields exactly its
\* direct children in insertion order, without descending; on a leaf it
\* yields the node itself alone, as get_iks(recursive=True) does.
C6_NonRecursiveYieldsChildren ==
    result.op = "get_iks" =>
        /\ (result.arg = FALSE /\ HasChildren(heap, result.node)) =>
              result.out.iks = heap[result.node].dependent_iks.vals
        /\ IsLeaf(heap, result.node) => result.out.iks = <<result.node>>

\* get_iks(False) ran on a node with a grandchild and yielded a child that
\* is no leaf
C6_Witness ==
    /\ result.op = "get_iks"
    /\ result.arg = FALSE
    /\ \E i \in 1..Len(result.out.iks) : HasChildren(heap, result.out.iks[i])

\* ---------------------------------------------------------------- C7
\* the first node named ik_name in the subtree of n, depth first, or 0
FirstMatch(h, n, ik_name) ==
    LET hits == SelectSeq(Preorder(h, n), LAMBDA m : h[m].name = ik_name)
    IN IF hits = <<>> THEN 0 ELSE Head(hits)

\* C7: get_ik_by_name returns a node with the name whenever one exists
\* anywhere in the subtree, two or more levels down included, and the node
\* returned is the first match in depth-first insertion order.
C7_FindsFirstMatch ==
    (/\ result.op = "get_ik_by_name"
     /\ FirstMatch(heap, result.node, result.arg) # 0)
    => /\ result.out.kind = "return"
       /\ result.out.ik = FirstMatch(heap, result.node, result.arg)

\* ---------------------------------------------------------------- C8
\* C8: get_ik_by_name with a name that matches no node of the subtree
\* returns None and never raises, on leaves and containers alike.
C8_MissReturnsNone ==
    (/\ result.op = "get_ik_by_name"
     /\ FirstMatch(heap, result.node, result.arg) = 0)
    => (result.out.kind = "return" /\ result.out.ik = 0)

\* ---------------------------------------------------------------- C9
\* the counter a metric divides by
Denominator(ik, metric) ==
    IF metric = "turnout" THEN ik.total_voters ELSE ik.found_ballots

\* C9: a percentage requested with a zero denominator (total_voters for
\* the turnout, found_ballots for the others) ends in an error whatever
\* the other counters are; no number is returned.
C9_ZeroDenominatorRaises ==
    (/\ result.op = "get_percent"
     /\ Denominator(heap[result.node], result.arg) = 0)
    => result.out.kind = "ZeroDivisionError"

\* a percentage with a non-zero numerator over a zero denominator raised
C9_Witness ==
    /\ result.op = "get_percent"
    /\ result.arg = "yes"
    /\ heap[result.node].found_ballots = 0
    /\ heap[result.node].yes_votes > 0
    /\ result.out.kind = "ZeroDivisionError"

\* --------------------------------------------------------------- C10
\* C10: validate() changes no state, whether it returns or raises: names,
\* counters and child mappings are as before; and once validate() has
\* returned on a node, a following validate() on any node of that tree
\* returns again.
C10_ValidateFrame ==
    [][result'.op = "validate" =>
          /\ heap' = heap
          /\ (/\ result.op = "validate"
              /\ result.out.kind = "return"
              /\ result'.node \in Subtree(heap, result.node))
             => result'.out.kind = "return"]_vars

\* validate() raised on a node that has children
C10_Witness ==
    /\ result.op = "validate"
    /\ result.out.kind = "AssertionError"
    /\ HasChildren(heap, result.node)
    /\ ingested > 0

\* ---------------------------------------------------------------- C11
\* all six counters of n hold the class default 0
ZeroCounters(h, n) == \A i \in 1..Len(Fields) : h[n][Fields[i]] = 0

\* n is a parent that started with zero counters and on which validate()
\* raises nothing: it has no child yet and its counters are 0, or it has
\* children and validation of it, which validates them, returns
BuiltFromValidChildren(h, n) ==
    /\ HasChildren(h, n) \/ ZeroCounters(h, n)
    /\ validate(h, n).kind = "return"

\* C11: for a parent that starts with zero counters and is given children
\* with pairwise distinct names by add_ik_info, every child passing
\* validate() when it is attached, validate() on the parent raises no
\* error: its counters are the component-wise sums over its children and
\* found = yes + no + spoiled, given >= found and total >= given carry
\* over to it.  Stated on the attaching step: attaching a child that
\* validates, under a name that is not yet a key, to such a parent leaves
\* such a parent.
C11_ValidChildrenGiveValidParent ==
    [][(/\ result'.op = "add_ik_info"
        /\ BuiltFromValidChildren(heap, result'.node)
        /\ ~HasKey(heap[result'.node].dependent_iks, heap[result'.arg].name)
        /\ validate(heap, result'.arg).kind = "return")
       => (/\ validate(heap', result'.node).kind = "return"
           /\ Inv4(heap', result'.node)
           /\ OwnInvariants(heap', result'.node)
           /\ \A i \in 1..Len(Fields) :
                 heap'[result'.node][Fields[i]] =
                    heap[result'.node][Fields[i]] + heap[result'.arg][Fields[i]])
      ]_vars

\* a second child with votes has just been attached to a parent, under a
\* name of its own, and validation of the parent returns
C11_Witness ==
    /\ result.op = "add_ik_info"
    /\ Len(heap[result.node].dependent_iks.vals) >= 2
    /\ heap[result.arg].total_voters > 0
    /\ heap[result.node].total_voters > heap[result.arg].total_voters
    /\ heap[result.node].dependent_iks.vals[2] = result.arg
    /\ validate(heap, result.node).kind = "return"

\* ---------------------------------------------------------------- C12
\* C12: for every leaf with positive total_voters of a tree on which
\* validate() succeeds, the bucket index plot_distribution computes,
\* floor(k * 100 * given_ballots / total_voters) with k = 3, lies in
\* 0..300, inside the arrays of length k * 100 + 1 = 301 it indexes, so the
\* plot raises no IndexError.  (Without the check total_voters >=
\* given_ballots the index can exceed 300: the variant
\* validate_total_voters_skipped.)
C12_TurnoutIndexInRange ==
    (result.op = "plot_distribution" /\ validate(heap, result.node).kind = "return")
    => /\ result.out.kind # "IndexError"
       /\ ticks = 301
       /\ LET leaves == Leaves(heap, result.node) IN
          \A i \in 1..Len(leaves) :
             LET ik == heap[leaves[i]] IN
             ik.total_voters > 0 =>
                /\ turnout_ind(ik).kind = "int"
                /\ turnout_ind(ik).value =
                      (3 * 100 * ik.given_ballots) \div ik.total_voters
                /\ turnout_ind(ik).value \in 0..300

\* the turnout of a validated tree with children has been plotted, and a
\* leaf of it fell into a bucket strictly between the first and the last
C12_Witness ==
    /\ result.op = "plot_distribution"
    /\ result.out.kind = "return"
    /\ validate(heap, result.node).kind = "return"
    /\ HasChildren(heap, result.node)
    /\ \E i \in 1..Len(result.out.inds) :
          result.out.inds[i] > 0 /\ result.out.inds[i] < 300

====
